---- MODULE Spec2Model ----
(***************************************************************************)
(* Solar diverter: the load registry and decision engine (loads.h), the    *)
(* time-flag scheduler (countTime.h), the power filter (values.h), the     *)
(* cycle timestamps (measure.h) and the switch transport (radio.h).        *)
(* Powers are whole Watts; times are whole seconds, milliseconds or        *)
(* microseconds as in the source.                                          *)
(***************************************************************************)
EXTENDS Integers, Sequences, FiniteSets, TLC

(***************************************************************************)
(* Program constants                                                       *)
(***************************************************************************)
N_LOADS_MAX == 3
POWER_REDUCTION_PCT == 85
N_CHANNELS == 3
TIME_CONSTANT_US == 1000000
SECOND_MS == 1000
NO_PIN == -1
SAMPLES_PER_CYCLE == 40
\* the largest value of the type long of the accumulators
LONG_MAX == 2147483647
\* an unsigned long is kept as two halves of 16 bits, each below this value
HALF_WORD == 65536

(***************************************************************************)
(* Bounds of the model                                                     *)
(***************************************************************************)
\* arguments of CountTime::begin
DecidePeriod == 2
RefreshPeriod == 1
VarRefreshPeriod == 0
\* arguments of CountTime::begin when the scheduler is followed on its own
DecidePeriods == {1, 3}
RefreshPeriods == {1, 3}
VarRefreshPeriods == {0, 2}
\* time between two calls of update(), in milliseconds: a loop that lasts
\* less than, exactly and (stalled) more than one second
StallMs == {400, 1000, 2500}
\* the same once the loop runs regularly again
FastMs == {400}
\* the scheduler is followed until millis() reaches this value
MaxMillis == 12000
\* stalls happen before millis() reaches this value
MaxStallMillis == 6000
\* update() is followed for this long, in ms, across the wraparound of millis()
MaxWrapMs == 6000
\* how long before the wraparound of millis() begin() is called, in ms
WrapLeads == {300, 1000, 2700}
\* argument of Values::begin
MaxConsumptW == 500
\* lock durations (seconds) used by the registered loads
LockLong == 3
\* a lock duration that ends at a decision, on the one-second tick of its call
LockShort == 2
\* a timestamp standing for "the previous cycle started at a non-zero time"
EpochUs == 1
\* time that passes between two calls of update(), in milliseconds
LoopMs == {500, 1000}
\* time between the starts of two sampled grid cycles, in microseconds
CycleGapsUs == {TIME_CONSTANT_US}
\* raw generated (>= 0) and consumed (<= 0) powers of one cycle, sampled or
\* simulated: with MaxConsumptW = 500 they give the margins 500, 50 and 0
RawPowers == {<<0, 0>>, <<250, 0>>, <<500, 0>>, <<500, -450>>, <<0, -500>>}

\* RMS voltage (V) and currents (A) of a cycle of the working installation
NominalRms == <<230, 5, 3>>

\* the filter followed on its own: compute() is called this many times
MaxCycles == 5
\* time between the starts of two sampled cycles: half, once and twice the
\* time constant of the filter
ValuesGapsUs == {TIME_CONSTANT_US \div 2, TIME_CONSTANT_US, 2 * TIME_CONSTANT_US}
\* raw powers of a cycle, the last two out of the clipping range (failing
\* analog inputs or a simulation command)
ValuesRawPowers == {<<0, 0>>, <<1024, -512>>, <<12000, -1000>>, <<0, -12000>>}
\* RMS values of a cycle, the last out of the clipping range
ValuesRawRms == {NominalRms, <<5000, 200, 150>>}

\* ADC_RESOLUTION_STEPS as built, and the maximum its declaration documents
AdcResolutions == {1024, 4096}

\* the loads a setup may register: name, nominal power (a physical power,
\* >= 0), lock durations, digital output, mode-switch input, transport, channel
LoadCfgs ==
  { [name |-> "heat", powerW |-> 250, lockOnSec |-> 0, lockOffSec |-> 0,
     gpioOut |-> 5, gpioMode |-> NO_PIN, radioModel |-> "NO_RADIO", channel |-> 0],
    [name |-> "pump", powerW |-> 200, lockOnSec |-> LockLong, lockOffSec |-> 0,
     gpioOut |-> NO_PIN, gpioMode |-> 7, radioModel |-> "RADIO_GMOMXEN", channel |-> 1],
    [name |-> "fan", powerW |-> 80, lockOnSec |-> 0, lockOffSec |-> LockLong,
     gpioOut |-> 6, gpioMode |-> 8, radioModel |-> "RADIO_GMOMXEN", channel |-> 4],
    [name |-> "lamp", powerW |-> 100, lockOnSec |-> LockShort, lockOffSec |-> 0,
     gpioOut |-> NO_PIN, gpioMode |-> 9, radioModel |-> "NO_RADIO", channel |-> 0] }

\* the orders in which a setup registers them (any prefix of one of these)
Setups == { <<"heat", "pump", "fan">>, <<"pump", "heat">>, <<"fan">>, <<"lamp", "pump">> }

OutPins == {c.gpioOut : c \in LoadCfgs} \ {NO_PIN}

VARIABLES
  pc,               \* position of the sketch: "setup", then the loop's calls
  \* Loads
  nLoads, cause,
  name, powerW, lockOnSec, lockOffSec, gpioOut, gpioMode, radioModel, channel,
  solarMode, flag, on, lockSec,
  addRet,           \* value returned by the latest Loads::add
  \* CountTime
  elapsedMs,        \* millis() - lastTime at the latest update()
  flagOneSec, flagDecide, flagRefresh, countDecide_s, countRefresh_s,
  decidePeriod_s, refreshPeriod_s, varRefreshPeriod_s,
  lastTime, hours, minutes, seconds,
  millis,           \* what millis() returned to the latest begin() or update()
  ticks,            \* one-second ticks fired since begin()
  wrap,             \* millis() and lastTime as unsigned longs of 32 bits, with the
                    \* time that has really elapsed since begin() and since the mark
  \* Measure
  prevCycleStartUs, cycleStartUs,
  \* Values
  Pg, Pc, Pn, PgFilt, PcFilt, PnFilt, Margin, interval,
  VxEff, IgEff, IcEff,
  cycles,           \* calls of compute() since start
  acc,              \* the integer accumulator of compute(): the loop it is in, the
                    \* samples added, the sum, and whether the sum has overflowed
  \* hardware
  pinOut,           \* level written to each digital output
  radioTx,          \* codes emitted by the transport in this loop iteration
  sendLog,          \* calls of Radio::send in this loop iteration, with their status
  remote,           \* state of the remote switch that listens on each channel
  \* observation
  fired,            \* what the latest decide() did: rule, load, its lock (as the
                    \* rules read it, and at the entry of the call) and mode
  steady,           \* TRUE once the inputs are held constant (the loop regular)
  track,            \* TRUE when runs of no-margin decisions are counted
  noMargin,         \* the current run of no-margin decisions: the loads that were
                    \* on at its first decision, and its decisions so far
  dwell             \* for each load, the one-second ticks still to come before
                    \* the lock duration set at its latest change has elapsed

cfgVars == <<name, powerW, lockOnSec, lockOffSec, gpioOut, gpioMode, radioModel, channel>>
statVars == <<solarMode, flag, on, lockSec>>
loadVars == <<nLoads, cause, cfgVars, statVars, addRet>>
periodVars == <<decidePeriod_s, refreshPeriod_s, varRefreshPeriod_s>>
\* the wall clock; it is followed by SpecClock only (it feeds the display)
clockVars == <<lastTime, hours, minutes, seconds, millis, ticks>>
timeVars == <<elapsedMs, flagOneSec, flagDecide, flagRefresh, countDecide_s, countRefresh_s,
              periodVars, clockVars, wrap>>
measVars == <<prevCycleStartUs, cycleStartUs>>
rmsVars == <<VxEff, IgEff, IcEff>>
\* the count of cycles is followed by SpecValues only, the accumulator by SpecSums
valVars == <<Pg, Pc, Pn, PgFilt, PcFilt, PnFilt, Margin, interval, rmsVars, cycles, acc>>
hwVars == <<pinOut, radioTx, sendLog, remote>>
obsVars == <<steady, track, noMargin, dwell>>
vars == <<pc, loadVars, timeVars, measVars, valVars, hwVars, fired, obsVars>>

LoadIdx == 0 .. (nLoads - 1)
\* the index a scan ends with when no load matches
NoLoad == N_LOADS_MAX
NoRun == [first |-> 0, calls |-> 0]
NoneFired == [rule |-> 0, load |-> NoLoad, lock |-> 0, solar |-> FALSE, entry |-> 0]
\* begin() has not been called
NoWrap == [now |-> <<0, 0>>, mark |-> <<0, 0>>, total |-> 0, real |-> 0, calls |-> 0]
\* compute() has not been entered
NoSum == [loop |-> "idle", i |-> 0, sum |-> 0, offset |-> 0, resolution |-> 0,
          level |-> 0, overflow |-> FALSE]

Max(S) == CHOOSE x \in S : \A y \in S : y <= x
Min(S) == CHOOSE x \in S : \A y \in S : x <= y
\* variant: the upper limit is not applied
Constrain_lower(x, lo, hi) == IF x < lo THEN lo ELSE x

Constrain(x, lo, hi) == IF x < lo THEN lo ELSE IF x > hi THEN hi ELSE x
\* a[n] = v for an array that holds n elements so far
Store(a, n, v) == [i \in 0 .. n |-> IF i = n THEN v ELSE a[i]]

InitProgram ==
  /\ pc = "setup"
  /\ nLoads = 0
  /\ cause = "program start"
  /\ name = << >> /\ powerW = << >> /\ lockOnSec = << >> /\ lockOffSec = << >>
  /\ gpioOut = << >> /\ gpioMode = << >> /\ radioModel = << >> /\ channel = << >>
  /\ solarMode = << >> /\ flag = << >> /\ on = << >> /\ lockSec = << >>
  /\ addRet = 0
  /\ elapsedMs = 0
  /\ flagOneSec = FALSE /\ flagDecide = FALSE /\ flagRefresh = FALSE
  /\ countDecide_s = 5 /\ countRefresh_s = 30
  /\ decidePeriod_s = 5 /\ refreshPeriod_s = 30 /\ varRefreshPeriod_s = 5
  /\ lastTime = 0 /\ hours = 0 /\ minutes = 0 /\ seconds = 0
  /\ millis = 0 /\ ticks = 0
  /\ wrap = NoWrap
  /\ prevCycleStartUs = 0 /\ cycleStartUs = 0
  /\ Pg = 0 /\ Pc = 0 /\ Pn = 0 /\ PgFilt = 0 /\ PcFilt = 0 /\ PnFilt = 0
  /\ Margin = 0 /\ interval = 0
  /\ VxEff = 0 /\ IgEff = 0 /\ IcEff = 0
  /\ cycles = 0
  /\ acc = NoSum
  /\ pinOut = [p \in OutPins |-> FALSE]
  /\ radioTx = << >>
  /\ sendLog = << >>
  /\ remote = [ch \in 1 .. N_CHANNELS |-> "unknown"]
  /\ fired = NoneFired
  /\ steady = FALSE
  /\ noMargin = NoRun
  /\ dwell = [i \in 0 .. (N_LOADS_MAX - 1) |-> 0]

Init == InitProgram /\ track = FALSE

(***************************************************************************)
(* Loads::add                                                              *)
(***************************************************************************)
\* variant: the capacity is not checked
AddLoad_nocheck(c, rd) ==
  /\ name' = Store(name, nLoads, c.name)
  /\ powerW' = Store(powerW, nLoads, c.powerW)
  /\ lockOnSec' = Store(lockOnSec, nLoads, c.lockOnSec)
  /\ lockOffSec' = Store(lockOffSec, nLoads, c.lockOffSec)
  /\ gpioOut' = Store(gpioOut, nLoads, c.gpioOut)
  /\ gpioMode' = Store(gpioMode, nLoads, c.gpioMode)
  /\ radioModel' = Store(radioModel, nLoads, c.radioModel)
  /\ channel' = Store(channel, nLoads, c.channel)
  /\ flag' = Store(flag, nLoads, TRUE)
  /\ on' = Store(on, nLoads, FALSE)
  /\ lockSec' = Store(lockSec, nLoads, 0)
  /\ pinOut' = IF c.gpioOut # NO_PIN
               THEN [pinOut EXCEPT ![c.gpioOut] = FALSE]
               ELSE pinOut
  /\ solarMode' = Store(solarMode, nLoads,
                        IF c.gpioMode # NO_PIN THEN rd ELSE TRUE)
  /\ nLoads' = nLoads + 1
  /\ addRet' = 0

\* variant: the two lock durations are stored in each other's place
AddLoad_swaplocks(c, rd) ==
  IF nLoads >= N_LOADS_MAX
  THEN /\ addRet' = -1
       /\ UNCHANGED <<nLoads, cfgVars, statVars, pinOut>>
  ELSE /\ name' = Store(name, nLoads, c.name)
       /\ powerW' = Store(powerW, nLoads, c.powerW)
       /\ lockOnSec' = Store(lockOnSec, nLoads, c.lockOffSec)
       /\ lockOffSec' = Store(lockOffSec, nLoads, c.lockOnSec)
       /\ gpioOut' = Store(gpioOut, nLoads, c.gpioOut)
       /\ gpioMode' = Store(gpioMode, nLoads, c.gpioMode)
       /\ radioModel' = Store(radioModel, nLoads, c.radioModel)
       /\ channel' = Store(channel, nLoads, c.channel)
       /\ flag' = Store(flag, nLoads, TRUE)
       /\ on' = Store(on, nLoads, FALSE)
       /\ lockSec' = Store(lockSec, nLoads, 0)
       /\ pinOut' = IF c.gpioOut # NO_PIN
                    THEN [pinOut EXCEPT ![c.gpioOut] = FALSE]
                    ELSE pinOut
       /\ solarMode' = Store(solarMode, nLoads,
                             IF c.gpioMode # NO_PIN THEN rd ELSE TRUE)
       /\ nLoads' = nLoads + 1
       /\ addRet' = 0

AddLoad(c, rd) ==
  IF nLoads >= N_LOADS_MAX
  THEN /\ addRet' = -1
       /\ UNCHANGED <<nLoads, cfgVars, statVars, pinOut>>
  ELSE /\ name' = Store(name, nLoads, c.name)
       /\ powerW' = Store(powerW, nLoads, c.powerW)
       /\ lockOnSec' = Store(lockOnSec, nLoads, c.lockOnSec)
       /\ lockOffSec' = Store(lockOffSec, nLoads, c.lockOffSec)
       /\ gpioOut' = Store(gpioOut, nLoads, c.gpioOut)
       /\ gpioMode' = Store(gpioMode, nLoads, c.gpioMode)
       /\ radioModel' = Store(radioModel, nLoads, c.radioModel)
       /\ channel' = Store(channel, nLoads, c.channel)
       /\ flag' = Store(flag, nLoads, TRUE)
       /\ on' = Store(on, nLoads, FALSE)
       /\ lockSec' = Store(lockSec, nLoads, 0)
       /\ pinOut' = IF c.gpioOut # NO_PIN
                    THEN [pinOut EXCEPT ![c.gpioOut] = FALSE]
                    ELSE pinOut
       /\ solarMode' = Store(solarMode, nLoads,
                             IF c.gpioMode # NO_PIN THEN rd ELSE TRUE)
       /\ nLoads' = nLoads + 1
       /\ addRet' = 0

Add ==
  /\ pc = "setup"
  /\ \E c \in LoadCfgs, rd \in BOOLEAN :
       /\ \/ nLoads >= N_LOADS_MAX
          \/ \E s \in Setups : /\ Len(s) > nLoads
                                /\ s[nLoads + 1] = c.name
                                /\ \A i \in LoadIdx : s[i + 1] = name[i]
       /\ AddLoad(c, rd)
  /\ UNCHANGED <<pc, cause, timeVars, measVars, valVars, radioTx, sendLog, remote, fired,
                 obsVars>>

(***************************************************************************)
(* CountTime::begin, the last call of setup                                *)
(***************************************************************************)
\* now: what millis() returns
BeginWith(setDecidePeriod_s, setRefreshPeriod_s, setVarRefreshPeriod_s, now) ==
  /\ decidePeriod_s' = setDecidePeriod_s
  /\ refreshPeriod_s' = setRefreshPeriod_s
  /\ varRefreshPeriod_s' = setVarRefreshPeriod_s
  /\ countDecide_s' = setDecidePeriod_s
  /\ countRefresh_s' = setRefreshPeriod_s
  /\ lastTime' = now
  /\ millis' = now
  /\ elapsedMs' = 0
  /\ ticks' = 0
  /\ UNCHANGED <<flagOneSec, flagDecide, flagRefresh, hours, minutes, seconds>>

Begin ==
  /\ pc = "setup"
  /\ BeginWith(DecidePeriod, RefreshPeriod, VarRefreshPeriod, millis)
  /\ pc' = "update"
  /\ UNCHANGED <<wrap, loadVars, measVars, valVars, hwVars, fired, obsVars>>

(***************************************************************************)
(* CountTime::update                                                       *)
(***************************************************************************)
\* random(lo, hi) of the Arduino core: lo .. hi-1, and lo when the range is empty
RandomRange(lo, hi) == IF lo >= hi THEN {lo} ELSE lo .. (hi - 1)

\* variant: the decide countdown is reset one tick late
NextDecide_late(c) == IF c - 1 < 0 THEN decidePeriod_s ELSE c - 1

\* the decide countdown after a one-second tick
NextDecide(c) == IF c - 1 <= 0 THEN decidePeriod_s ELSE c - 1

\* variant: the random variation is added twice
NextRefresh_wide(c, rnd) ==
  IF c - 1 <= 0 THEN refreshPeriod_s + rnd + rnd ELSE c - 1

\* the refresh countdown after a one-second tick; rnd: what random() returns
NextRefresh(c, rnd) == IF c - 1 <= 0 THEN refreshPeriod_s + rnd ELSE c - 1

\* variant: only the one-second flag is cleared at the start of the call
UpdateAt_halfclear(since, rnd) ==
  IF since < SECOND_MS
  THEN /\ flagOneSec' = FALSE
       /\ elapsedMs' = since
       /\ UNCHANGED <<flagDecide, flagRefresh, countDecide_s, countRefresh_s>>
  ELSE /\ elapsedMs' = since - SECOND_MS
       /\ flagOneSec' = TRUE
       /\ flagDecide' = (countDecide_s - 1 <= 0)
       /\ countDecide_s' = NextDecide(countDecide_s)
       /\ flagRefresh' = (countRefresh_s - 1 <= 0)
       /\ countRefresh_s' = NextRefresh(countRefresh_s, rnd)

\* variant: the flags are not cleared when less than a second has elapsed
UpdateAt_sticky(since, rnd) ==
  IF since < SECOND_MS
  THEN /\ elapsedMs' = since
       /\ UNCHANGED <<flagOneSec, flagDecide, flagRefresh, countDecide_s, countRefresh_s>>
  ELSE /\ elapsedMs' = since - SECOND_MS
       /\ flagOneSec' = TRUE
       /\ flagDecide' = (countDecide_s - 1 <= 0)
       /\ countDecide_s' = NextDecide(countDecide_s)
       /\ flagRefresh' = (countRefresh_s - 1 <= 0)
       /\ countRefresh_s' = NextRefresh(countRefresh_s, rnd)

\* since: millis() - lastTime as this call reads it; rnd: what random() returns
UpdateAt(since, rnd) ==
  IF since < SECOND_MS
  THEN /\ flagOneSec' = FALSE /\ flagDecide' = FALSE /\ flagRefresh' = FALSE
       /\ elapsedMs' = since
       /\ UNCHANGED <<countDecide_s, countRefresh_s>>
  ELSE /\ elapsedMs' = since - SECOND_MS
       /\ flagOneSec' = TRUE
       /\ flagDecide' = (countDecide_s - 1 <= 0)
       /\ countDecide_s' = NextDecide(countDecide_s)
       /\ flagRefresh' = (countRefresh_s - 1 <= 0)
       /\ countRefresh_s' = NextRefresh(countRefresh_s, rnd)

\* variant: a late tick moves the last-second mark to the present
ClockAt_resync(since) ==
  IF since < SECOND_MS
  THEN UNCHANGED <<lastTime, hours, minutes, seconds, ticks>>
  ELSE /\ lastTime' = lastTime + since
       /\ ticks' = ticks + 1
       /\ seconds' = (IF seconds + 1 >= 60 THEN 0 ELSE seconds + 1)
       /\ minutes' = (IF seconds + 1 < 60 THEN minutes
                      ELSE IF minutes + 1 >= 60 THEN 0 ELSE minutes + 1)
       /\ hours' = (IF seconds + 1 >= 60 /\ minutes + 1 >= 60 THEN hours + 1
                    ELSE hours)

\* the last-second mark and the clock in the same call
ClockAt(since) ==
  IF since < SECOND_MS
  THEN UNCHANGED <<lastTime, hours, minutes, seconds, ticks>>
  ELSE /\ lastTime' = lastTime + SECOND_MS
       /\ ticks' = ticks + 1
       /\ seconds' = (IF seconds + 1 >= 60 THEN 0 ELSE seconds + 1)
       /\ minutes' = (IF seconds + 1 < 60 THEN minutes
                      ELSE IF minutes + 1 >= 60 THEN 0 ELSE minutes + 1)
       /\ hours' = (IF seconds + 1 >= 60 /\ minutes + 1 >= 60 THEN hours + 1
                    ELSE hours)

Update ==
  /\ pc = "update"
  /\ \E d \in LoopMs, rnd \in RandomRange(-varRefreshPeriod_s, varRefreshPeriod_s) :
       UpdateAt(elapsedMs + d, rnd)
  /\ radioTx' = << >>
  /\ sendLog' = << >>
  /\ pc' = "getCycle"
  /\ UNCHANGED <<periodVars, clockVars, wrap, loadVars, measVars, valVars, pinOut, remote, fired,
                 obsVars>>

(***************************************************************************)
(* Measure::getCycle: the timestamps of the sampled cycle                  *)
(***************************************************************************)
GetCycleAt(gap) ==
  /\ prevCycleStartUs' = (IF cycleStartUs = 0 THEN 0 ELSE EpochUs)
  /\ cycleStartUs' = EpochUs + gap

GetCycle ==
  /\ pc = "getCycle"
  /\ \E gap \in CycleGapsUs : GetCycleAt(gap)
  /\ pc' = "compute"
  /\ UNCHANGED <<loadVars, timeVars, valVars, hwVars, fired, obsVars>>

(***************************************************************************)
(* Values::compute: clipping, filtering and margin of the cycle's powers   *)
(***************************************************************************)
\* PFilt + alpha * (P - PFilt) with alpha = min(1, intv / TimeConst), in whole
\* Watts: (a * d) \div TimeConst, the product taken in two parts of a to keep
\* it within the integers of the checker
Blend(filt, raw, intv) ==
  LET a == IF intv > TIME_CONSTANT_US THEN TIME_CONSTANT_US ELSE intv
      d == raw - filt
  IN  filt + ((a \div 1000) * d + ((a % 1000) * d) \div 1000)
               \div (TIME_CONSTANT_US \div 1000)

\* g, c: generated (>= 0) and consumed (<= 0) power of the cycle, as the
\* samples or the power simulation give them. The Values object is a global
\* of the sketch: interval is 0 before the first call.
ComputeWith(g, c) ==
  /\ Pg' = Constrain(g, 0, 9999)
  /\ Pc' = Constrain(c, -9999, 0)
  /\ Pn' = Constrain(g + c, -9999, 9999)
  /\ PgFilt' = IF interval = 0 THEN Pg' ELSE Blend(PgFilt, Pg', interval)
  /\ PcFilt' = IF interval = 0 THEN Pc' ELSE Blend(PcFilt, Pc', interval)
  /\ PnFilt' = IF interval = 0 THEN Pn' ELSE PgFilt' + PcFilt'
  /\ Margin' = MaxConsumptW - (-PcFilt')
  /\ interval' = IF prevCycleStartUs = 0 THEN 0
                 ELSE cycleStartUs - prevCycleStartUs

\* v, ig, ic: the RMS voltage and currents as the samples give them (>= 0)
RmsWith(v, ig, ic) ==
  /\ VxEff' = Constrain(v, 0, 999)
  /\ IgEff' = Constrain(ig, 0, 99)
  /\ IcEff' = Constrain(ic, 0, 99)

Compute ==
  /\ pc = "compute"
  /\ \E p \in RawPowers :
       /\ (steady => p = <<Pg, Pc>>)
       /\ ComputeWith(p[1], p[2])
  /\ RmsWith(NominalRms[1], NominalRms[2], NominalRms[3])
  /\ pc' = "decide"
  /\ UNCHANGED <<cycles, acc, loadVars, timeVars, measVars, hwVars, fired, obsVars>>

(***************************************************************************)
(* Loads::decide                                                           *)
(***************************************************************************)
\* variant: the lock counters are never decreased
DecLock_stuck(l) == l

\* variant: the lock counters lose two seconds per tick
DecLock_double(l) == [i \in DOMAIN l |-> IF l[i] > 1 THEN l[i] - 2 ELSE 0]

\* the one-second task on the lock counters
DecLock(l) == [i \in DOMAIN l |-> IF l[i] > 0 THEN l[i] - 1 ELSE l[i]]

\* variant: the scan starts at the load of most priority
Rule1Load_first(o) ==
  LET S == {i \in LoadIdx : o[i]}
  IN  IF Margin <= 0 /\ S # {} THEN Min(S) ELSE NoLoad

\* variant: a margin of exactly zero does not count as "no margin"
Rule1Load_strict(o) ==
  LET S == {i \in LoadIdx : o[i]}
  IN  IF Margin < 0 /\ S # {} THEN Max(S) ELSE NoLoad

\* variant: the margin is compared with the load's nominal power
Rule1Load_nominal(o) ==
  LET S == {i \in LoadIdx : o[i] /\ Margin <= powerW[i]}
  IN  IF S # {} THEN Max(S) ELSE NoLoad

\* rule 1: no margin, the on load of least priority
Rule1Load(o) ==
  LET S == {i \in LoadIdx : o[i]}
  IN  IF Margin <= 0 /\ S # {} THEN Max(S) ELSE NoLoad

\* variant: rule 2 scans from the load of most priority
Rule2Load_first(sm, o, l) ==
  LET S == {i \in LoadIdx : sm[i] /\ o[i] /\ l[i] = 0}
  IN  IF PnFilt <= 0 /\ S # {} THEN Min(S) ELSE NoLoad

\* variant: the lock counter is not tested
Rule2Load_nolock(sm, o, l) ==
  LET S == {i \in LoadIdx : sm[i] /\ o[i]}
  IN  IF PnFilt <= 0 /\ S # {} THEN Max(S) ELSE NoLoad

\* variant: an excedent of exactly zero does not count as "no excedent"
Rule2Load_strict(sm, o, l) ==
  LET S == {i \in LoadIdx : sm[i] /\ o[i] /\ l[i] = 0}
  IN  IF PnFilt < 0 /\ S # {} THEN Max(S) ELSE NoLoad

\* variant: the mode is not tested
Rule2Load_anymode(sm, o, l) ==
  LET S == {i \in LoadIdx : o[i] /\ l[i] = 0}
  IN  IF PnFilt <= 0 /\ S # {} THEN Max(S) ELSE NoLoad

\* rule 2: no excedent, the on, solar, lock-free load of least priority
Rule2Load(sm, o, l) ==
  LET S == {i \in LoadIdx : sm[i] /\ o[i] /\ l[i] = 0}
  IN  IF PnFilt <= 0 /\ S # {} THEN Max(S) ELSE NoLoad

\* variant: the powers are not compared
Inversions_anypower(sm, o, l) ==
  {p \in LoadIdx \X LoadIdx :
     /\ ~o[p[1]] /\ sm[p[1]] /\ l[p[1]] = 0
     /\ p[2] > p[1]
     /\ o[p[2]] /\ sm[p[2]] /\ l[p[2]] = 0}

\* rule 3: the pairs (i off, j on) of a priority inversion
Inversions(sm, o, l) ==
  {p \in LoadIdx \X LoadIdx :
     /\ ~o[p[1]] /\ sm[p[1]] /\ l[p[1]] = 0
     /\ p[2] > p[1]
     /\ o[p[2]] /\ sm[p[2]] /\ l[p[2]] = 0
     /\ powerW[p[2]] * POWER_REDUCTION_PCT + PnFilt * 100 >= powerW[p[1]] * 100}

\* variant: of the on loads that pair with the first off load, the one of
\* least priority is taken
Rule3Load_last(sm, o, l) ==
  LET P == Inversions(sm, o, l)
  IN  IF P = {} THEN NoLoad
      ELSE LET i == Min({p[1] : p \in P})
           IN  Max({p[2] : p \in {q \in P : q[1] = i}})

\* the scans of rule 3: the first off load i that has a partner, and its
\* first partner j
Rule3Load(sm, o, l) ==
  LET P == Inversions(sm, o, l)
  IN  IF P = {} THEN NoLoad
      ELSE LET i == Min({p[1] : p \in P})
           IN  Min({p[2] : p \in {q \in P : q[1] = i}})

\* variant: a nominal power equal to the margin or the excedent is enough
Rule4Load_loose(sm, o, l) ==
  LET S == {i \in LoadIdx : /\ ~o[i] /\ l[i] = 0 /\ powerW[i] <= Margin
                            /\ (~sm[i] \/ powerW[i] <= PnFilt)}
  IN  IF S = {} THEN NoLoad ELSE Min(S)

\* rule 4: the off, lock-free load of most priority that margin and excedent allow
Rule4Load(sm, o, l) ==
  LET S == {i \in LoadIdx : /\ ~o[i] /\ l[i] = 0 /\ powerW[i] < Margin
                            /\ (~sm[i] \/ powerW[i] < PnFilt)}
  IN  IF S = {} THEN NoLoad ELSE Min(S)

\* the rule that returns, and the load it changes
Decision(sm, o, l) ==
  IF Rule1Load(o) # NoLoad THEN [rule |-> 1, load |-> Rule1Load(o)]
  ELSE IF Rule2Load(sm, o, l) # NoLoad THEN [rule |-> 2, load |-> Rule2Load(sm, o, l)]
  ELSE IF Rule3Load(sm, o, l) # NoLoad THEN [rule |-> 3, load |-> Rule3Load(sm, o, l)]
  ELSE IF Rule4Load(sm, o, l) # NoLoad THEN [rule |-> 4, load |-> Rule4Load(sm, o, l)]
  ELSE [rule |-> 0, load |-> NoLoad]

CauseOf(rule, solar) ==
  CASE rule = 1 -> "no margin"
    [] rule = 2 -> "no excedent"
    [] rule = 3 -> "priority inversion"
    [] rule = 4 -> IF solar THEN "enough excedent and margin" ELSE "enough margin"

\* variant: rule 1 does not return after the first load it switches off
SwitchLoad_all(o, d) ==
  IF d.rule = 1 THEN [i \in DOMAIN o |-> FALSE]
  ELSE [o EXCEPT ![d.load] = (d.rule = 4)]

\* the on/off states and the lock counters a matched rule leaves
SwitchLoad(o, d) == [o EXCEPT ![d.load] = (d.rule = 4)]
Relock(l, d) ==
  [l EXCEPT ![d.load] = IF d.rule = 4 THEN lockOnSec[d.load] ELSE lockOffSec[d.load]]

\* the modes and lock counters the rules read: after the one-second task, if any
TickedMode(rd) == IF flagOneSec THEN rd ELSE solarMode
\* variant: the lock counters are decreased in every call
TickedLock_always == DecLock(lockSec)

TickedLock == IF flagOneSec THEN DecLock(lockSec) ELSE lockSec

\* rd[i]: what digitalRead(gpioMode[i]) returns in the one-second task. The
\* read is made for every load, also with gpioMode[i] = -1, where the core
\* indexes its pin tables out of bounds: either level can come back
DecideWith(rd) ==
  LET sm == TickedMode(rd)
      l  == TickedLock
      d  == IF flagDecide THEN Decision(sm, on, l) ELSE [rule |-> 0, load |-> NoLoad]
  IN  /\ solarMode' = sm
      /\ IF d.rule = 0
         THEN /\ lockSec' = l
              /\ fired' = NoneFired
              /\ UNCHANGED <<on, flag, cause>>
         ELSE /\ on' = SwitchLoad(on, d)
              /\ flag' = [flag EXCEPT ![d.load] = TRUE]
              /\ lockSec' = Relock(l, d)
              /\ cause' = CauseOf(d.rule, sm[d.load])
              /\ fired' = [rule |-> d.rule, load |-> d.load,
                           lock |-> l[d.load], solar |-> sm[d.load],
                           entry |-> lockSec[d.load]]

OnLoads == {i \in LoadIdx : on[i]}

\* a run of consecutive decisions taken with margin <= 0: its first decision
\* notes the loads that are on, and the decisions are counted up to that number
Tracked ==
  IF ~(track /\ flagDecide) THEN noMargin
  ELSE IF Margin > 0 THEN NoRun
  ELSE LET k == IF noMargin = NoRun THEN Cardinality(OnLoads) ELSE noMargin.first
           j == noMargin.calls + 1
       IN  [first |-> k, calls |-> IF j > k THEN k ELSE j]

\* the ticks still to come for each load after this call: the lock duration
\* of the new state for a load the call changes, one less for the others
\* when the call runs the one-second task
Dwelt ==
  [i \in DOMAIN dwell |->
     IF i \in LoadIdx /\ on'[i] # on[i]
     THEN (IF on'[i] THEN lockOnSec[i] ELSE lockOffSec[i])
     ELSE IF flagOneSec /\ dwell[i] > 0 THEN dwell[i] - 1 ELSE dwell[i]]

Decide ==
  /\ pc = "decide"
  /\ \E rd \in [LoadIdx -> BOOLEAN] :
       /\ (steady => rd = solarMode)
       /\ DecideWith(rd)
  /\ noMargin' = Tracked
  /\ dwell' = Dwelt
  /\ pc' = "activate"
  /\ UNCHANGED <<nLoads, cfgVars, addRet, timeVars, measVars, valVars, hwVars,
                 steady, track>>

(***************************************************************************)
(* Radio::send and Loads::activate                                         *)
(***************************************************************************)
\* variant: the channel is not checked before the code is emitted
RadioSend_anychannel(radioType, ch, setToOn) ==
  [ret |-> -1,
   tx  |-> IF radioType = "RADIO_GMOMXEN"
           THEN <<[channel |-> ch, setOn |-> setToOn]>> ELSE << >>]

\* the status send returns and the codes it emits. The case of the switch has
\* no break: whatever sendGmomxen returns (-2 for a channel out of range, an
\* unspecified value when it runs off its end after emitting the code) is
\* overwritten by the default case
RadioSend(radioType, ch, setToOn) ==
  [ret |-> -1,
   tx  |-> IF radioType = "RADIO_GMOMXEN" /\ ch >= 1 /\ ch <= N_CHANNELS
           THEN <<[channel |-> ch, setOn |-> setToOn]>> ELSE << >>]

\* variant: only a refresh pulse applies a load
Applied_onrefresh == {i \in LoadIdx : flagRefresh}

\* variant: a refresh pulse applies nothing
Applied_pending == {i \in LoadIdx : flag[i]}

\* the loads this call applies
Applied == {i \in LoadIdx : flag[i] \/ flagRefresh}

RECURSIVE TxFrom(_)
TxFrom(i) ==
  IF i >= nLoads THEN << >>
  ELSE (IF i \in Applied /\ radioModel[i] # "NO_RADIO"
        THEN RadioSend(radioModel[i], channel[i], on[i]).tx ELSE << >>)
       \o TxFrom(i + 1)

\* the calls of send this call makes, with the status and the codes of each
RECURSIVE SendsFrom(_)
SendsFrom(i) ==
  IF i >= nLoads THEN << >>
  ELSE (IF i \in Applied /\ radioModel[i] # "NO_RADIO"
        THEN LET r == RadioSend(radioModel[i], channel[i], on[i])
             IN  <<[load |-> i, radioType |-> radioModel[i], channel |-> channel[i],
                    setToOn |-> on[i], ret |-> r.ret, tx |-> r.tx]>>
        ELSE << >>)
       \o SendsFrom(i + 1)

\* variant: the change-pending flags are left set
Activate_keepflag ==
  /\ pc = "activate"
  /\ flag' = flag
  /\ pinOut' = [p \in OutPins |->
                  LET W == {i \in Applied : gpioOut[i] = p}
                  IN  IF W = {} THEN pinOut[p] ELSE on[Max(W)]]
  /\ radioTx' = radioTx \o TxFrom(0)
  /\ sendLog' = sendLog \o SendsFrom(0)
  /\ fired' = NoneFired
  /\ pc' = "update"
  /\ UNCHANGED <<nLoads, cause, cfgVars, solarMode, on, lockSec, addRet,
                 timeVars, measVars, valVars, remote, obsVars>>

\* variant: a refresh restarts the lock of the loads it re-sends
Activate_relock ==
  /\ pc = "activate"
  /\ flag' = [i \in LoadIdx |-> IF i \in Applied THEN FALSE ELSE flag[i]]
  /\ pinOut' = [p \in OutPins |->
                  LET W == {i \in Applied : gpioOut[i] = p}
                  IN  IF W = {} THEN pinOut[p] ELSE on[Max(W)]]
  /\ radioTx' = radioTx \o TxFrom(0)
  /\ sendLog' = sendLog \o SendsFrom(0)
  /\ lockSec' = [i \in LoadIdx |->
                   IF flagRefresh
                   THEN (IF on[i] THEN lockOnSec[i] ELSE lockOffSec[i])
                   ELSE lockSec[i]]
  /\ fired' = NoneFired
  /\ pc' = "update"
  /\ UNCHANGED <<nLoads, cause, cfgVars, solarMode, on, addRet,
                 timeVars, measVars, valVars, remote, obsVars>>

Activate ==
  /\ pc = "activate"
  /\ flag' = [i \in LoadIdx |-> IF i \in Applied THEN FALSE ELSE flag[i]]
  /\ pinOut' = [p \in OutPins |->
                  LET W == {i \in Applied : gpioOut[i] = p}
                  IN  IF W = {} THEN pinOut[p] ELSE on[Max(W)]]
  /\ radioTx' = radioTx \o TxFrom(0)
  /\ sendLog' = sendLog \o SendsFrom(0)
  /\ fired' = NoneFired
  /\ pc' = "update"
  /\ UNCHANGED <<nLoads, cause, cfgVars, solarMode, on, lockSec, addRet,
                 timeVars, measVars, valVars, remote, obsVars>>

Loop == Update \/ GetCycle \/ Compute \/ Decide \/ Activate

Next == Add \/ Begin \/ Loop

Spec == Init /\ [][Next]_vars

(***************************************************************************)
(* The sketch with runs of no-margin decisions counted                     *)
(***************************************************************************)
InitTracked == InitProgram /\ track = TRUE

SpecTracked == InitTracked /\ [][Next]_vars

(***************************************************************************)
(* The sketch whose inputs (the cycle's raw powers and the mode switches)  *)
(* are held constant from some iteration on; the loop never stops.         *)
(***************************************************************************)
Freeze ==
  /\ pc = "update"
  /\ ~steady
  /\ steady' = TRUE
  /\ UNCHANGED <<pc, loadVars, timeVars, measVars, valVars, hwVars, fired,
                 track, noMargin, dwell>>

NextSteady == Next \/ Freeze

SpecSteady == Init /\ [][NextSteady]_vars /\ WF_vars(Loop)

(***************************************************************************)
(* The sketch with its remote switches: a code emitted in a loop iteration *)
(* may reach the switch that listens on its channel before the next        *)
(* iteration, or be lost to interference.                                  *)
(***************************************************************************)
SwitchState(setOn) == IF setOn THEN "on" ELSE "off"

Deliver ==
  /\ pc = "update"
  /\ \E k \in DOMAIN radioTx :
       remote' = [remote EXCEPT ![radioTx[k].channel] = SwitchState(radioTx[k].setOn)]
  /\ UNCHANGED <<pc, loadVars, timeVars, measVars, valVars, pinOut, radioTx, sendLog,
                 fired, obsVars>>

NextRadio == Next \/ Deliver

SpecRadio == Init /\ [][NextRadio]_vars

(***************************************************************************)
(* The power filter on its own: getCycle() and compute() called in turn,   *)
(* with cycles that start at any of the intervals and give any of the raw  *)
(* values, until the raw powers are held constant.                         *)
(***************************************************************************)
ValuesGetCycle ==
  /\ pc = "update"
  /\ cycles < MaxCycles
  /\ \E gap \in ValuesGapsUs : GetCycleAt(gap)
  /\ pc' = "compute"
  /\ UNCHANGED <<loadVars, timeVars, valVars, hwVars, fired, obsVars>>

ValuesCompute ==
  /\ pc = "compute"
  /\ \E p \in ValuesRawPowers, r \in ValuesRawRms :
       /\ ComputeWith(p[1], p[2])
       /\ RmsWith(r[1], r[2], r[3])
       /\ (steady => <<Pg', Pc', Pn'>> = <<Pg, Pc, Pn>>)
  /\ cycles' = cycles + 1
  /\ pc' = "update"
  /\ UNCHANGED <<acc, loadVars, timeVars, measVars, hwVars, fired, obsVars>>

NextValues == Begin \/ ValuesGetCycle \/ ValuesCompute \/ Freeze

SpecValues == Init /\ [][NextValues]_vars

(***************************************************************************)
(* The integer sums of Values::compute on their own: one cycle of          *)
(* SAMPLES_PER_CYCLE samples per channel, each sample within 0 and the ADC *)
(* resolution, added one iteration of a loop at a time.                    *)
(***************************************************************************)
\* the levels of the reference input V0 during a cycle
V0Levels(res) == {0, 1, res \div 2, res - 1, res}

\* the samples of the other three inputs: none or full scale
Samples(res) == {0, res}

\* the loops in the order compute() runs them
SumLoops == <<"offset", "Vx", "Ig", "Pg", "Ic", "Pc", "done">>

LoopAfter(l) == SumLoops[(CHOOSE k \in DOMAIN SumLoops : SumLoops[k] = l) + 1]

\* variant: the accumulator is an int, 16 bits wide on the board
SumAdd_int(a, v) ==
  LET fits == /\ a.sum + v <= 32767
              /\ a.sum + v >= -32768
  IN  [a EXCEPT !.i = a.i + 1,
                !.sum = IF fits THEN a.sum + v ELSE a.sum,
                !.overflow = a.overflow \/ ~fits]

\* sum += v on a long. A sum out of the range of long is undefined: it is
\* noted, and the value the accumulator then holds is not followed
SumAdd(a, v) ==
  LET fits == IF v >= 0 THEN a.sum <= LONG_MAX - v
                        ELSE a.sum >= (-LONG_MAX - 1) - v
  IN  [a EXCEPT !.i = a.i + 1,
                !.sum = IF fits THEN a.sum + v ELSE a.sum,
                !.overflow = a.overflow \/ ~fits]

sumsFrame == <<loadVars, timeVars, measVars, Pg, Pc, Pn, PgFilt, PcFilt, PnFilt,
               Margin, interval, rmsVars, cycles, hwVars, fired, obsVars>>

SumsEnter ==
  /\ pc = "setup"
  /\ \E res \in AdcResolutions :
       \E lv \in V0Levels(res) :
         acc' = [NoSum EXCEPT !.loop = "offset", !.resolution = res, !.level = lv]
  /\ pc' = "compute"
  /\ UNCHANGED sumsFrame

SumOffset ==
  /\ pc = "compute"
  /\ acc.loop = "offset"
  /\ acc.i < SAMPLES_PER_CYCLE
  /\ acc' = SumAdd(acc, acc.level)
  /\ UNCHANGED <<pc, sumsFrame>>

SumSquares ==
  /\ pc = "compute"
  /\ acc.loop \in {"Vx", "Ig", "Ic"}
  /\ acc.i < SAMPLES_PER_CYCLE
  /\ \E x \in Samples(acc.resolution) :
       LET value == x - acc.offset
       IN  acc' = SumAdd(acc, value * value)
  /\ UNCHANGED <<pc, sumsFrame>>

SumProducts ==
  /\ pc = "compute"
  /\ acc.loop \in {"Pg", "Pc"}
  /\ acc.i < SAMPLES_PER_CYCLE
  /\ \E x \in Samples(acc.resolution), vx \in Samples(acc.resolution) :
       LET value == (x - acc.offset) * (vx - acc.offset)
       IN  acc' = SumAdd(acc, value)
  /\ UNCHANGED <<pc, sumsFrame>>

\* a loop ends: the offset loop leaves the average, and the next loop starts
\* from a sum of zero
SumLoopEnd ==
  /\ pc = "compute"
  /\ acc.loop # "done"
  /\ acc.i = SAMPLES_PER_CYCLE
  /\ acc' = [acc EXCEPT !.loop = LoopAfter(acc.loop),
                        !.i = 0,
                        !.sum = IF LoopAfter(acc.loop) = "done" THEN acc.sum ELSE 0,
                        !.offset = IF acc.loop = "offset"
                                   THEN acc.sum \div SAMPLES_PER_CYCLE ELSE acc.offset]
  /\ UNCHANGED <<pc, sumsFrame>>

NextSums == SumsEnter \/ SumOffset \/ SumSquares \/ SumProducts \/ SumLoopEnd

SpecSums == Init /\ [][NextSums]_vars

(***************************************************************************)
(* The one-second detection across the wraparound of millis(): begin() is  *)
(* called shortly before millis() returns to zero, then update() after     *)
(* loops of any duration. millis() and lastTime are unsigned longs of 32   *)
(* bits, kept as <<high half, low half>>.                                  *)
(***************************************************************************)
\* x + n modulo 2^32, for 0 <= n < 2^16
Add32(x, n) ==
  LET lo == x[2] + n
  IN  <<(x[1] + lo \div HALF_WORD) % HALF_WORD, lo % HALF_WORD>>

\* variant: a difference below zero is taken as zero
Sub32_floor(a, b) ==
  IF a[1] < b[1] \/ (a[1] = b[1] /\ a[2] < b[2]) THEN <<0, 0>>
  ELSE LET borrow == IF a[2] < b[2] THEN 1 ELSE 0
       IN  <<a[1] - b[1] - borrow, (a[2] - b[2] + HALF_WORD) % HALF_WORD>>

\* a - b modulo 2^32
Sub32(a, b) ==
  LET borrow == IF a[2] < b[2] THEN 1 ELSE 0
  IN  <<(a[1] - b[1] - borrow + HALF_WORD) % HALF_WORD,
        (a[2] - b[2] + HALF_WORD) % HALF_WORD>>

\* the value of x in ms when it is below 2^16; above, a value that stands for
\* "more than any duration followed here"
Elapsed32(x) == IF x[1] = 0 THEN x[2] ELSE HALF_WORD

WrapBegin ==
  /\ pc = "setup"
  /\ \E lead \in WrapLeads :
       wrap' = [NoWrap EXCEPT !.now = <<HALF_WORD - 1, HALF_WORD - lead>>,
                              !.mark = <<HALF_WORD - 1, HALF_WORD - lead>>]
  /\ BeginWith(DecidePeriod, RefreshPeriod, VarRefreshPeriod, millis)
  /\ pc' = "update"
  /\ UNCHANGED <<loadVars, measVars, valVars, hwVars, fired, obsVars>>

\* d: the time since the previous call. The real time since the mark grows by
\* d, after the second the previous call has moved the mark by
WrapUpdate ==
  /\ pc = "update"
  /\ \E d \in StallMs,
        rnd \in RandomRange(-varRefreshPeriod_s, varRefreshPeriod_s) :
       /\ wrap.total + d <= MaxWrapMs
       /\ LET now   == Add32(wrap.now, d)
              since == Elapsed32(Sub32(now, wrap.mark))
          IN  /\ UpdateAt(since, rnd)
              /\ wrap' = [now   |-> now,
                          mark  |-> IF since < SECOND_MS THEN wrap.mark
                                    ELSE Add32(wrap.mark, SECOND_MS),
                          total |-> wrap.total + d,
                          real  |-> (IF flagOneSec THEN wrap.real - SECOND_MS
                                     ELSE wrap.real) + d,
                          calls |-> IF wrap.calls < 1 THEN 1 ELSE wrap.calls]
  /\ UNCHANGED <<pc, periodVars, clockVars, loadVars, measVars, valVars, hwVars,
                 fired, obsVars>>

NextWrap == WrapBegin \/ WrapUpdate

SpecWrap == Init /\ [][NextWrap]_vars

(***************************************************************************)
(* The time-flag scheduler on its own: begin() with any of the periods,    *)
(* then update() called after loops of any duration, stalled ones          *)
(* included, until the loop is regular again. The other calls of the loop  *)
(* do not write to it.                                                     *)
(***************************************************************************)
ClockBegin ==
  /\ pc = "setup"
  /\ \E D \in DecidePeriods, R \in RefreshPeriods, J \in VarRefreshPeriods :
       BeginWith(D, R, J, millis)
  /\ pc' = "update"
  /\ UNCHANGED <<wrap, loadVars, measVars, valVars, hwVars, fired, obsVars>>

ClockUpdate ==
  /\ pc = "update"
  /\ \E d \in (IF steady THEN FastMs ELSE StallMs),
        rnd \in RandomRange(-varRefreshPeriod_s, varRefreshPeriod_s) :
       /\ millis + d <= (IF steady THEN MaxMillis ELSE MaxStallMillis)
       /\ millis' = millis + d
       /\ UpdateAt(millis' - lastTime, rnd)
       /\ ClockAt(millis' - lastTime)
  /\ UNCHANGED <<pc, periodVars, wrap, loadVars, measVars, valVars, hwVars, fired, obsVars>>

NextClock == ClockBegin \/ ClockUpdate \/ Freeze

SpecClock == Init /\ [][NextClock]_vars /\ WF_vars(ClockUpdate) /\ WF_vars(Freeze)

(***************************************************************************)
(* Properties of Loads::decide                                             *)
(***************************************************************************)
AllOn == \A i \in LoadIdx : on[i]

\* C1: a call of decide changes the on/off state of at most one load
C1_AtMostOneChange ==
  [][pc = "decide" => Cardinality({i \in LoadIdx : on'[i] # on[i]}) <= 1]_vars

\* three loads were on when margin ran out, and one of them was switched off
C1_Witness ==
  /\ pc = "activate" /\ nLoads = 3
  /\ fired.rule = 1 /\ Cardinality(OnLoads) = 2

\* C2: in a decision with margin <= 0 and a load on, the on load of largest
\* index is switched off whatever its lock and mode, its lock counter becomes
\* its lock-off duration, the cause becomes "no margin" and no other load changes
C2_SafetyFirst ==
  [][(pc = "decide" /\ flagDecide /\ Margin <= 0 /\ OnLoads # {}) =>
       LET k == Max(OnLoads)
       IN  /\ ~on'[k] /\ flag'[k]
           /\ lockSec'[k] = lockOffSec[k]
           /\ cause' = "no margin"
           /\ \A i \in LoadIdx \ {k} :
                on'[i] = on[i] /\ flag'[i] = flag[i] /\ lockSec'[i] = TickedLock[i]
    ]_vars

\* rule 1 switched off a load whose lock counter was running, and left a load
\* of more priority on
C2_Witness ==
  /\ pc = "activate" /\ fired.rule = 1 /\ fired.lock > 0
  /\ \E i \in LoadIdx : i < fired.load /\ on[i]

\* C3: a load whose lock counter is > 0 when the rules are evaluated changes
\* state only by rule 1 (margin <= 0, switched off, cause "no margin")
C3_LockedKeepsState ==
  [][pc = "decide" =>
       \A i \in LoadIdx :
         (TickedLock[i] > 0 /\ on'[i] # on[i]) =>
           (flagDecide /\ Margin <= 0 /\ on[i] /\ cause' = "no margin")
    ]_vars

\* rule 2 passed over an on, solar load of less priority whose lock was running
C3_Witness ==
  /\ pc = "activate" /\ fired.rule = 2
  /\ \E i \in LoadIdx : i > fired.load /\ on[i] /\ solarMode[i] /\ lockSec[i] > 0

\* C4: after j consecutive decisions with margin <= 0, the first of them with
\* k loads on, k - j loads are on (none once j = k); each of them switches off
\* exactly one on load, and none switches a load on
C4_FastReaction ==
  /\ [](noMargin.calls >= 1 =>
          Cardinality(OnLoads) = noMargin.first - noMargin.calls)
  /\ [][(pc = "decide" /\ flagDecide /\ Margin <= 0) =>
          /\ \A i \in LoadIdx : on'[i] => on[i]
          /\ OnLoads # {} =>
               Cardinality({i \in LoadIdx : on[i] /\ ~on'[i]}) = 1
       ]_vars

\* three loads were on, and the third no-margin decision switched off the last
C4_Witness ==
  /\ pc = "activate" /\ fired.rule = 1
  /\ noMargin = [first |-> 3, calls |-> 3]
  /\ OnLoads = {}

\* C5: once the inputs are constant, the on/off states stop changing
C5_NoOscillation == <>steady => <>[][on' = on]_vars

\* every load is in solar mode, and margin and excedent exceed its nominal power
Plenty ==
  \A i \in LoadIdx : solarMode[i] /\ Margin > powerW[i] /\ PnFilt > powerW[i]

\* C6: with the inputs constant, every load in solar mode and margin and
\* excedent above every nominal power, all loads end up on and stay on
C6_NoStarvation == [](steady /\ Plenty => <>[]AllOn)

\* under such inputs rule 4 has switched on the last of three loads
C6_Witness ==
  /\ pc = "activate" /\ steady /\ Plenty
  /\ nLoads = 3 /\ AllOn /\ fired.rule = 4

\* the scenario: margin 50 W, one load of 80 W that is on, manual and lock-free
C7_Scenario ==
  /\ pc = "decide" /\ flagDecide
  /\ Margin = 50 /\ nLoads = 1 /\ powerW[0] = 80
  /\ on[0] /\ ~solarMode'[0] /\ TickedLock[0] = 0

\* C7 as claimed: in the scenario rule 1 switches the load off
C7_Rule1AtMargin50 ==
  [][C7_Scenario => (~on'[0] /\ cause' = "no margin")]_vars

\* C7: in the scenario no rule fires (rule 1 needs margin <= 0): the load
\* stays on and lock-free, and the cause and the pending flag are unchanged
C7_NoRuleAtMargin50 ==
  [][C7_Scenario =>
       (on'[0] /\ lockSec'[0] = 0 /\ cause' = cause /\ flag' = flag)]_vars

\* a decision was taken in the scenario
C7_Witness ==
  /\ pc = "activate" /\ flagDecide /\ fired.rule = 0
  /\ Margin = 50 /\ nLoads = 1 /\ powerW[0] = 80
  /\ on[0] /\ ~solarMode[0] /\ lockSec[0] = 0

\* the scenario: a 200 W load that is off and a 250 W load of less priority
\* that is on, both solar and lock-free, margin > 0 and excedent 0 W
C8_Scenario ==
  /\ pc = "decide" /\ flagDecide
  /\ nLoads = 2 /\ powerW[0] = 200 /\ powerW[1] = 250
  /\ ~on[0] /\ solarMode'[0] /\ TickedLock[0] = 0
  /\ on[1] /\ solarMode'[1] /\ TickedLock[1] = 0
  /\ Margin > 0 /\ PnFilt = 0

C9_ManualIgnored ==
  [][pc = "decide" =>
       \A i \in LoadIdx : ~solarMode'[i] => on'[i] = on[i]]_vars

\* C9: a load in manual mode is changed only by rule 1 (switched off, margin
\* <= 0) or by rule 4 (switched on when lock-free and its power is below the
\* margin, cause "enough margin"), never by rules 2 and 3
C9_ManualOnlyRules1And4 ==
  [][pc = "decide" =>
       \A i \in LoadIdx :
         (~solarMode'[i] /\ on'[i] # on[i]) =>
           \/ (Margin <= 0 /\ on[i] /\ cause' = "no margin")
           \/ (/\ ~on[i] /\ TickedLock[i] = 0 /\ powerW[i] < Margin
               /\ cause' = "enough margin")
    ]_vars

\* rule 4 switched on a manual load that the excedent would not have allowed
C9_Witness ==
  /\ pc = "activate" /\ fired.rule = 4 /\ ~fired.solar
  /\ PnFilt <= powerW[fired.load]

\* C10: a load registered without a mode-switch input is in solar mode
C10_PinlessStaysSolar ==
  \A i \in LoadIdx : gpioMode[i] = NO_PIN => solarMode[i]

(***************************************************************************)
(* Properties of Radio::send                                               *)
(***************************************************************************)
\* a protocol and a channel the transport can serve
Supported(radioType, ch) ==
  radioType = "RADIO_GMOMXEN" /\ ch >= 1 /\ ch <= N_CHANNELS

\* C11: send returns 0 exactly when the protocol is RADIO_GMOMXEN and the
\* channel is in 1..3, and a failure status otherwise
C11_StatusTellsSuccess ==
  \A k \in DOMAIN sendLog :
    (sendLog[k].ret = 0) <=> Supported(sendLog[k].radioType, sendLog[k].channel)

\* C12: a send for an unsupported protocol or a channel outside 1..3 returns
\* a non-zero status and emits no code; the activate call that issued it makes
\* that one call for the load, clears the load's pending flag as for any
\* applied load, and leaves on/off states, lock counters and cause unchanged
C12_FailedSendLeavesRegistry ==
  /\ [](/\ \A rt \in {"NO_RADIO", "RADIO_GMOMXEN"}, ch \in 0 .. (N_CHANNELS + 1),
              b \in BOOLEAN :
              ~Supported(rt, ch) =>
                (RadioSend(rt, ch, b).ret # 0 /\ RadioSend(rt, ch, b).tx = << >>)
        /\ \A k \in DOMAIN sendLog :
              ~Supported(sendLog[k].radioType, sendLog[k].channel) =>
                (sendLog[k].ret # 0 /\ sendLog[k].tx = << >>))
  /\ [][pc = "activate" =>
          /\ on' = on /\ lockSec' = lockSec /\ cause' = cause
          /\ flag' = [i \in LoadIdx |-> flag[i] /\ i \notin Applied]
          /\ \A i \in LoadIdx :
               Cardinality({k \in DOMAIN sendLog' : sendLog'[k].load = i})
                 = (IF i \in Applied /\ radioModel[i] # "NO_RADIO" THEN 1 ELSE 0)
       ]_vars

\* activate has issued a send on channel 4: it failed, nothing was emitted
\* and the load is no longer pending
C12_Witness ==
  /\ pc = "update"
  /\ \E k \in DOMAIN sendLog :
       /\ sendLog[k].channel > N_CHANNELS
       /\ sendLog[k].ret # 0 /\ sendLog[k].tx = << >>
       /\ ~flag[sendLog[k].load]

(***************************************************************************)
(* Properties of Loads::add                                                *)
(***************************************************************************)
\* C13: the load count is always in 0..3, and an add made with 3 loads
\* registered returns -1 and changes neither the count nor any load field
C13_FullRegistryRejects ==
  /\ [](nLoads >= 0 /\ nLoads <= N_LOADS_MAX)
  /\ [][(pc = "setup" /\ pc' = "setup" /\ nLoads = N_LOADS_MAX) =>
          (addRet' = -1 /\ UNCHANGED <<nLoads, cfgVars, statVars, pinOut>>)]_vars

\* a fourth registration was refused
C13_Witness == pc = "setup" /\ nLoads = N_LOADS_MAX /\ addRet = -1

\* the arguments a setup passes when it registers the load of this name
CfgNamed(n) == CHOOSE c \in LoadCfgs : c.name = n

\* the configured fields stored at an index
Stored(i) ==
  [name |-> name[i], powerW |-> powerW[i], lockOnSec |-> lockOnSec[i],
   lockOffSec |-> lockOffSec[i], gpioOut |-> gpioOut[i], gpioMode |-> gpioMode[i],
   radioModel |-> radioModel[i], channel |-> channel[i]]

\* C14: the k-th load a setup registers is stored at index k-1 with exactly
\* the arguments of its registration, and no later call alters the configured
\* fields of a registered load
C14_RoundTrip ==
  /\ [](\E s \in Setups :
          /\ Len(s) >= nLoads
          /\ \A i \in LoadIdx : Stored(i) = CfgNamed(s[i + 1]))
  /\ [][\A i \in LoadIdx : Stored(i)' = Stored(i)]_vars

\* three loads were registered, and decide and activate have acted on them
C14_Witness ==
  /\ pc = "update" /\ nLoads = N_LOADS_MAX
  /\ cause # "program start" /\ \E i \in LoadIdx : on[i]

(***************************************************************************)
(* Properties of CountTime::update                                         *)
(***************************************************************************)
\* C15: an update() that fires the refresh flag leaves the refresh countdown
\* within refreshPeriod - varRefreshPeriod .. refreshPeriod + varRefreshPeriod
C15_RefreshResetInRange ==
  [][(millis' # millis /\ flagRefresh') =>
       /\ countRefresh_s' >= refreshPeriod_s - varRefreshPeriod_s
       /\ countRefresh_s' <= refreshPeriod_s + varRefreshPeriod_s]_vars

\* the refresh flag fired and random() gave its lowest value
C15_Witness ==
  /\ flagRefresh /\ varRefreshPeriod_s > 0
  /\ countRefresh_s = refreshPeriod_s - varRefreshPeriod_s

\* C16: an update() that finds less than 1000 ms since the last-second mark
\* leaves the three flags false and the clock, both countdowns and the mark
\* unchanged; a flag is true after an update() only if that call fired it
C16_PulsedFlags ==
  [][millis' # millis =>
       /\ (millis' - lastTime < SECOND_MS) =>
            /\ ~flagOneSec' /\ ~flagDecide' /\ ~flagRefresh'
            /\ UNCHANGED <<hours, minutes, seconds, countDecide_s, countRefresh_s,
                           lastTime>>
       /\ flagOneSec' => (millis' - lastTime >= SECOND_MS)
       /\ flagDecide' => (millis' - lastTime >= SECOND_MS /\ countDecide_s <= 1)
       /\ flagRefresh' => (millis' - lastTime >= SECOND_MS /\ countRefresh_s <= 1)
    ]_vars

\* the decide flag has fired, and a later update() within the same second
\* has cleared the flags
C16_Witness ==
  /\ pc = "update" /\ ticks >= decidePeriod_s /\ ticks >= 1
  /\ elapsedMs > 0 /\ elapsedMs < SECOND_MS
  /\ ~flagOneSec /\ ~flagDecide /\ ~flagRefresh

\* C17: the decide flag is set by exactly the updates that fire the tick
\* number D, 2D, 3D, ... since begin(), and between the calls the decide
\* countdown is in 1..D (D minus the ticks fired since the last pulse)
C17_DecideEveryDthTick ==
  /\ [](pc = "update" =>
          /\ countDecide_s >= 1 /\ countDecide_s <= decidePeriod_s
          /\ countDecide_s = decidePeriod_s - (ticks % decidePeriod_s))
  /\ [][millis' # millis =>
          (flagDecide' <=> (ticks' # ticks /\ ticks' % decidePeriod_s = 0))]_vars

\* with a period of 3 s the sixth tick has fired the decide flag
C17_Witness ==
  /\ pc = "update" /\ decidePeriod_s = 3 /\ ticks = 6 /\ flagDecide

\* C18: no elapsed second is lost: the seconds ticked plus the time since the
\* last-second mark make up the time since begin(); every update() that finds
\* a whole second pending fires the one-second flag; and once the loop is
\* regular again the ticks catch up with the whole seconds elapsed
C18_NoWindowSkipped ==
  /\ [](pc = "update" =>
          /\ lastTime = SECOND_MS * ticks
          /\ millis - lastTime = elapsedMs)
  /\ [][(millis' # millis /\ millis' - lastTime >= SECOND_MS) =>
          (flagOneSec' /\ ticks' = ticks + 1)]_vars
  /\ [](steady => <>(ticks = millis \div SECOND_MS))

\* after a stalled loop of 2500 ms the ticks have caught up
C18_Witness ==
  /\ steady /\ millis % 1000 = 500
  /\ ticks >= 3 /\ ticks = millis \div SECOND_MS

(***************************************************************************)
(* Properties of Loads::activate                                           *)
(***************************************************************************)
\* C19: activate leaves no load pending and the digital output of every load
\* it applies equal to the load's on/off state, so that outside of the span
\* between decide and activate every output equals its load's state; a further
\* activate without a refresh pulse would apply nothing
C19_ActivateApplies ==
  /\ [](pc # "activate" =>
          \A i \in LoadIdx : gpioOut[i] # NO_PIN => pinOut[gpioOut[i]] = on[i])
  /\ [][pc = "activate" =>
          /\ \A i \in LoadIdx : ~flag'[i]
          /\ \A i \in Applied : gpioOut[i] # NO_PIN => pinOut'[gpioOut[i]] = on[i]
          /\ ~flagRefresh' => {i \in LoadIdx : flag'[i] \/ flagRefresh'} = {}
       ]_vars

\* a load switched on by decide has had its output driven high
C19_Witness ==
  /\ pc = "update" /\ cause # "program start"
  /\ \E i \in LoadIdx : on[i] /\ gpioOut[i] # NO_PIN /\ pinOut[gpioOut[i]]

\* C20: activate, on refresh pulses too, changes no load's on/off state, lock
\* counter or mode, nor the cause
C20_ActivateKeepsDecision ==
  [][pc = "activate" => UNCHANGED <<on, lockSec, solarMode, cause>>]_vars

\* a refresh has re-sent the state of a load whose lock was running since an
\* earlier iteration
C20_Witness ==
  /\ pc = "update" /\ flagRefresh
  /\ \E k \in DOMAIN sendLog :
       /\ lockSec[sendLog[k].load] > 0
       /\ lockSec[sendLog[k].load] < LockLong

(***************************************************************************)
(* Properties of the periodic refresh                                      *)
(***************************************************************************)
\* the loads with a remote-switch transport assigned
RadioLoads == {i \in LoadIdx : radioModel[i] # "NO_RADIO"}

\* C21: on every refresh pulse activate() calls the transport once for every
\* registered load that has a transport assigned, with the load's current
\* on/off state, whatever the earlier sends returned; the state of the loads
\* is not changed by the call, and a code of that iteration that reaches a
\* remote switch leaves the switch in the decided state of the load on its
\* channel
C21_SelfHealingRefresh ==
  /\ [][(pc = "activate" /\ flagRefresh) =>
          /\ on' = on
          /\ \A i \in RadioLoads :
               /\ Cardinality({k \in DOMAIN sendLog' : sendLog'[k].load = i}) = 1
               /\ \A k \in DOMAIN sendLog' :
                    sendLog'[k].load = i =>
                      /\ sendLog'[k].setToOn = on[i]
                      /\ sendLog'[k].channel = channel[i]
                      /\ sendLog'[k].radioType = radioModel[i]
               /\ Supported(radioModel[i], channel[i]) =>
                    \E k \in DOMAIN radioTx' :
                      radioTx'[k] = [channel |-> channel[i], setOn |-> on[i]]]_vars
  /\ [][Deliver =>
          \A i \in RadioLoads :
            (Supported(radioModel[i], channel[i])
               /\ remote'[channel[i]] # remote[channel[i]]) =>
              remote'[channel[i]] = SwitchState(on[i])]_vars
  /\ [](pc = "update" =>
          \A k \in DOMAIN radioTx :
            \E i \in RadioLoads :
              radioTx[k] = [channel |-> channel[i], setOn |-> on[i]])

\* no decision has changed a load yet, and the remote switch of a load has
\* been set to the load's state by a refresh that followed lost codes or
\* none
C21_Witness ==
  /\ pc = "update"
  /\ cause = "program start"
  /\ \E i \in RadioLoads :
       /\ Supported(radioModel[i], channel[i])
       /\ remote[channel[i]] = SwitchState(on[i])
       /\ radioTx = << >>

(***************************************************************************)
(* Properties of Values::compute                                           *)
(***************************************************************************)
Dist(x, y) == IF x >= y THEN x - y ELSE y - x

\* C22: the first compute() leaves the filtered powers equal to the clipped
\* raw ones; while the raw powers are constant the distance between each
\* filtered power and its raw power never increases, and it is zero once the
\* interval is at least the time constant
C22_SeedAndConverge ==
  [][pc = "compute" =>
       /\ cycles = 0 => (PgFilt' = Pg' /\ PcFilt' = Pc' /\ PnFilt' = Pn')
       /\ (steady /\ cycles >= 1) =>
            /\ Dist(PgFilt', Pg') <= Dist(PgFilt, Pg)
            /\ Dist(PcFilt', Pc') <= Dist(PcFilt, Pc)
            /\ Dist(PnFilt', Pn') <= Dist(PnFilt, Pn)
       /\ (steady /\ cycles >= 1 /\ interval >= TIME_CONSTANT_US) =>
            (PgFilt' = Pg' /\ PcFilt' = Pc' /\ PnFilt' = Pn')
    ]_vars

\* C23: the filtered powers are set to the raw ones on the first compute()
\* only; every later call blends them, with the weight of a recorded interval
C23_SeedOnlyFirst ==
  [][pc = "compute" =>
       /\ cycles = 0 => (PgFilt' = Pg' /\ PcFilt' = Pc' /\ PnFilt' = Pn')
       /\ cycles >= 1 =>
            \E intv \in {interval, cycleStartUs - prevCycleStartUs} \ {0} :
              /\ PgFilt' = Blend(PgFilt, Pg', intv)
              /\ PcFilt' = Blend(PcFilt, Pc', intv)
              /\ PnFilt' = PgFilt' + PcFilt'
    ]_vars

\* C24: a compute() that blends takes its weight from the time between the
\* start of the previous cycle and the start of the cycle it computes
C24_AlphaFromCurrentInterval ==
  [][(pc = "compute" /\ interval # 0) =>
       /\ PgFilt' = Blend(PgFilt, Pg', cycleStartUs - prevCycleStartUs)
       /\ PcFilt' = Blend(PcFilt, Pc', cycleStartUs - prevCycleStartUs)
    ]_vars

\* C25: the filtered net power is the sum of the filtered generated and
\* consumed powers
C25_NetIsSum == PnFilt = PgFilt + PcFilt

\* C26: after a compute() the RMS voltage is in 0..999, the RMS currents in
\* 0..99, the raw and filtered generated powers in 0..9999, the consumed ones
\* in -9999..0, the net ones in -9999..9999, and the margin is the maximum
\* consumption plus the filtered consumed power, at most the maximum consumption
C26_Ranges ==
  cycles >= 1 =>
    /\ VxEff >= 0 /\ VxEff <= 999
    /\ IgEff >= 0 /\ IgEff <= 99 /\ IcEff >= 0 /\ IcEff <= 99
    /\ Pg >= 0 /\ Pg <= 9999 /\ PgFilt >= 0 /\ PgFilt <= 9999
    /\ Pc >= -9999 /\ Pc <= 0 /\ PcFilt >= -9999 /\ PcFilt <= 0
    /\ Pn >= -9999 /\ Pn <= 9999 /\ PnFilt >= -9999 /\ PnFilt <= 9999
    /\ Margin = MaxConsumptW + PcFilt /\ Margin <= MaxConsumptW

\* a cycle with every value out of range was clipped, after a cycle in range
C26_Witness ==
  /\ pc = "update" /\ cycles >= 2
  /\ VxEff = 999 /\ IgEff = 99 /\ IcEff = 99
  /\ Pg = 0 /\ Pc = -9999 /\ Pn = -9999
  /\ PcFilt < 0 /\ PcFilt > -9999

(***************************************************************************)
(* Properties of the integer sums of Values::compute                       *)
(***************************************************************************)
\* C27: for a cycle of 40 samples whose four channels lie within 0 and the
\* ADC resolution (1024 as built, 4096 at most), the sum of the offsets, the
\* sums of the squared deviations and the sums of the current x voltage
\* products all stay within the signed 32-bit range: no addition wraps,
\* all-zero and saturated cycles included
C27_SumsFit ==
  /\ ~acc.overflow
  /\ acc.sum <= LONG_MAX
  /\ acc.sum >= -LONG_MAX - 1
  /\ acc.sum <= SAMPLES_PER_CYCLE * acc.resolution * acc.resolution
  /\ -acc.sum <= SAMPLES_PER_CYCLE * acc.resolution * acc.resolution

\* a saturated cycle at the maximum resolution: the reference at zero and
\* every sample of the grid voltage at full scale
C27_Witness ==
  /\ acc.loop = "Vx"
  /\ acc.i = SAMPLES_PER_CYCLE
  /\ acc.resolution = 4096
  /\ acc.sum = SAMPLES_PER_CYCLE * 4096 * 4096

(***************************************************************************)
(* Properties of the rules of Loads::decide, one rule at a time            *)
(***************************************************************************)
\* the conditions under which each of the first three rules returns, as the
\* rules read them: the modes and the lock counters after the one-second task
Rule1Fires == Margin <= 0 /\ OnLoads # {}

SolarOnFree == {i \in LoadIdx : solarMode'[i] /\ on[i] /\ TickedLock[i] = 0}

SolarOffFree == {i \in LoadIdx : solarMode'[i] /\ ~on[i] /\ TickedLock[i] = 0}

Rule2Fires == ~Rule1Fires /\ PnFilt <= 0 /\ SolarOnFree # {}

Suffices(j, i) ==
  powerW[j] * POWER_REDUCTION_PCT + PnFilt * 100 >= powerW[i] * 100

Rule3Fires ==
  /\ ~Rule1Fires /\ ~Rule2Fires
  /\ \E j \in SolarOnFree : \E i \in SolarOffFree : i < j /\ Suffices(j, i)

\* decide leaves every load but k as the one-second task left it
OnlyChanged(k) ==
  \A i \in LoadIdx \ {k} :
    on'[i] = on[i] /\ flag'[i] = flag[i] /\ lockSec'[i] = TickedLock[i]

\* C28: in a decision where rule 1 does not fire and filtered net power <= 0,
\* if some load is on, in solar mode and lock-free, the one of largest index
\* is switched off, its lock counter becomes its lock-off duration and the
\* cause becomes "no excedent"; a load in manual mode or with lock counter > 0
\* is never switched off with that cause
C28_Rule2 ==
  /\ [][(pc = "decide" /\ flagDecide /\ Rule2Fires) =>
          LET k == Max(SolarOnFree)
          IN  /\ ~on'[k] /\ flag'[k]
              /\ lockSec'[k] = lockOffSec[k]
              /\ cause' = "no excedent"
              /\ OnlyChanged(k)
       ]_vars
  /\ [][pc = "decide" =>
          \A i \in LoadIdx :
            (on[i] /\ ~on'[i] /\ cause' = "no excedent") =>
              (solarMode'[i] /\ TickedLock[i] = 0)
       ]_vars

\* rule 2 switched off the last of two loads that were on, solar and lock-free
C28_Witness ==
  /\ pc = "activate" /\ fired.rule = 2 /\ cause = "no excedent"
  /\ \E i \in LoadIdx :
       i < fired.load /\ on[i] /\ solarMode[i] /\ lockSec[i] = 0

\* C29: when a decision sets the cause to "priority inversion", rules 1 and 2
\* did not fire in it, the load j it switched off was on, in solar mode and
\* lock-free, and a load i of smaller index is off, in solar mode and
\* lock-free with 0.85 * power[j] + filtered net power >= power[i]; load i is
\* not switched on in that decision and the lock counter of j becomes its
\* lock-off duration
C29_Rule3 ==
  [][(pc = "decide" /\ on' # on /\ cause' = "priority inversion") =>
       /\ flagDecide /\ ~Rule1Fires /\ ~Rule2Fires
       /\ \E j \in SolarOnFree :
            /\ ~on'[j] /\ flag'[j]
            /\ lockSec'[j] = lockOffSec[j]
            /\ OnlyChanged(j)
            /\ \E i \in SolarOffFree : i < j /\ Suffices(j, i) /\ ~on'[i]
    ]_vars

\* rule 3 switched off a load while there was excedent, and left off the
\* load of more priority that it made room for
C29_Witness ==
  /\ pc = "activate" /\ fired.rule = 3 /\ cause = "priority inversion"
  /\ PnFilt > 0 /\ Margin > 0
  /\ \E i \in LoadIdx :
       /\ i < fired.load /\ ~on[i] /\ solarMode[i] /\ lockSec[i] = 0
       /\ powerW[i] > powerW[fired.load]

Rule4Allows ==
  {i \in LoadIdx : /\ ~on[i] /\ TickedLock[i] = 0 /\ powerW[i] < Margin
                   /\ (solarMode'[i] => powerW[i] < PnFilt)}

\* the example: margin 500 W, excedent 500 W, and two loads of 100 W and
\* 200 W that are off, in solar mode and lock-free
C30_Scenario ==
  /\ pc = "decide" /\ flagDecide
  /\ Margin = 500 /\ PnFilt = 500
  /\ nLoads = 2 /\ powerW[0] = 100 /\ powerW[1] = 200
  /\ SolarOffFree = {0, 1}

\* C30: when rules 1 to 3 do not fire, the decision switches on the load of
\* smallest index that is off, lock-free, of nominal power strictly below the
\* margin and, if in solar mode, strictly below the filtered net power; its
\* lock counter becomes its lock-on duration and the cause "enough margin"
\* (manual) or "enough excedent and margin" (solar). No load is switched on
\* with nominal power >= margin. In the example the 100 W load is switched on
C30_Rule4 ==
  /\ [][(/\ pc = "decide" /\ flagDecide
         /\ ~Rule1Fires /\ ~Rule2Fires /\ ~Rule3Fires
         /\ Rule4Allows # {}) =>
          LET k == Min(Rule4Allows)
          IN  /\ on'[k] /\ flag'[k]
              /\ lockSec'[k] = lockOnSec[k]
              /\ cause' = (IF solarMode'[k] THEN "enough excedent and margin"
                           ELSE "enough margin")
              /\ OnlyChanged(k)
       ]_vars
  /\ [][pc = "decide" =>
          \A i \in LoadIdx : (~on[i] /\ on'[i]) => powerW[i] < Margin]_vars
  /\ [][C30_Scenario =>
          (on'[0] /\ ~on'[1] /\ cause' = "enough excedent and margin")]_vars

\* the decision of the example was taken: the 100 W load is on, the 200 W
\* load still off
C30_Witness ==
  /\ pc = "activate" /\ flagDecide
  /\ Margin = 500 /\ PnFilt = 500
  /\ nLoads = 2 /\ powerW[0] = 100 /\ powerW[1] = 200
  /\ fired = [rule |-> 4, load |-> 0, lock |-> 0, solar |-> TRUE, entry |-> 0]
  /\ on[0] /\ ~on[1] /\ solarMode[1] /\ lockSec[1] = 0
  /\ cause = "enough excedent and margin"

(***************************************************************************)
(* Properties of the lock counters and of what decide() leaves alone       *)
(***************************************************************************)
\* C31: the lock counter of a load is never negative; a decide call that does
\* not change the load decreases it by exactly one when it runs the
\* one-second task and the counter is > 0, and leaves it alone otherwise; a
\* call that changes the load sets it to the lock duration L of the new
\* state, and rules 2 to 4 change a load only when the L one-second ticks
\* that followed its latest change have all occurred
C31_MinimumDwell ==
  /\ [](\A i \in LoadIdx : lockSec[i] >= 0)
  /\ [][pc = "decide" =>
          \A i \in LoadIdx :
            /\ on'[i] = on[i] =>
                 lockSec'[i] = (IF flagOneSec /\ lockSec[i] > 0
                                THEN lockSec[i] - 1 ELSE lockSec[i])
            /\ on'[i] # on[i] =>
                 lockSec'[i] = (IF on'[i] THEN lockOnSec[i] ELSE lockOffSec[i])
            /\ (on'[i] # on[i] /\ cause' # "no margin") =>
                 (IF flagOneSec /\ dwell[i] > 0 THEN dwell[i] - 1 ELSE dwell[i]) = 0
       ]_vars

\* rule 2 switched off a load whose lock-on duration is not zero: the ticks
\* of that duration have all occurred since the load was switched on
C31_Witness ==
  /\ pc = "activate" /\ fired.rule = 2
  /\ lockOnSec[fired.load] = LockLong
  /\ dwell[fired.load] = lockOffSec[fired.load]

\* none of the four rules matches
NoRuleMatches ==
  ~Rule1Fires /\ ~Rule2Fires /\ ~Rule3Fires /\ Rule4Allows = {}

\* C32: a decide call without the decide flag, or in which none of the four
\* rules matches, leaves every on/off state, every change-pending flag and
\* the cause unchanged, and changes the lock counters only by the one-second
\* decrement; the cause changes only in a call that changes an on/off state,
\* and every change of an on/off state sets the change-pending flag of its load
C32_DecideFrame ==
  [][pc = "decide" =>
       /\ (~flagDecide \/ NoRuleMatches) =>
            /\ on' = on /\ flag' = flag /\ cause' = cause
            /\ \A i \in LoadIdx :
                 lockSec'[i] = (IF flagOneSec /\ lockSec[i] > 0
                                THEN lockSec[i] - 1 ELSE lockSec[i])
       /\ cause' # cause => on' # on
       /\ \A i \in LoadIdx : on'[i] # on[i] => flag'[i]
       /\ \A i \in LoadIdx : on'[i] = on[i] => flag'[i] = flag[i]
    ]_vars

\* a decision in which no rule matched: a load is on, another is off with its
\* lock counter running, and nothing is pending
C32_Witness ==
  /\ pc = "activate" /\ flagDecide /\ fired.rule = 0
  /\ \E i \in LoadIdx : on[i]
  /\ \E i \in LoadIdx : ~on[i] /\ lockSec[i] > 0
  /\ \A i \in LoadIdx : ~flag[i]

(***************************************************************************)
(* Which load a switch-off takes                                           *)
(***************************************************************************)
\* the loads of less priority than k that are on, in solar mode and lock-free
\* and that the call leaves on
LeftOnBelow(k) ==
  {m \in SolarOnFree : m > k /\ on'[m]}

\* C33 as claimed: whenever a decide call switches a load off, by rule 1, 2 or
\* 3, no load of larger index that is on, in solar mode and lock-free remains
\* on after that call
C33_LowestSacrificedFirst ==
  [][pc = "decide" =>
       \A k \in LoadIdx : (on[k] /\ ~on'[k]) => LeftOnBelow(k) = {}]_vars

\* the off loads that rule 3 can make room for, and the on loads that can
\* make room for load i
Rule3Waiting ==
  {i \in SolarOffFree : \E j \in SolarOnFree : j > i /\ Suffices(j, i)}

Rule3Partners(i) == {j \in SolarOnFree : j > i /\ Suffices(j, i)}

\* C33: a load switched off by rule 1 or by rule 2 is the one of largest
\* index among the loads the rule may take, so no load of larger index that
\* is on, in solar mode and lock-free remains on; a load switched off by rule
\* 3 is the one of smallest index among the on, solar, lock-free loads that
\* can make room for the waiting load of most priority, and loads of larger
\* index may remain on
C33_SacrificeOrder ==
  [][pc = "decide" =>
       \A k \in LoadIdx :
         (on[k] /\ ~on'[k]) =>
           /\ cause' \in {"no margin", "no excedent"} => LeftOnBelow(k) = {}
           /\ cause' = "priority inversion" =>
                /\ Rule3Waiting # {}
                /\ k = Min(Rule3Partners(Min(Rule3Waiting)))
    ]_vars

\* rule 3 switched off a load and left on a load of less priority that is in
\* solar mode and lock-free
C33_Witness ==
  /\ pc = "activate" /\ fired.rule = 3
  /\ \E m \in LoadIdx :
       m > fired.load /\ on[m] /\ solarMode[m] /\ lockSec[m] = 0

(***************************************************************************)
(* The flags of update() as decide() reads them                            *)
(***************************************************************************)
\* the lock counter of load i once the tick of this call is taken off
LockLeft(i) == IF lockSec[i] > 0 THEN lockSec[i] - 1 ELSE 0

\* C34: the decide flag and the refresh flag are set only together with the
\* one-second flag, so a decide call that evaluates the rules has decreased
\* the lock counters for that second before a rule reads them: rules 2 to 4
\* change a load only if its counter less this tick is zero, and a call that
\* changes nothing has passed over no load that rule 2 or rule 4 would take
\* with the counters less this tick
C34_TickBeforeRules ==
  /\ []((flagDecide \/ flagRefresh) => flagOneSec)
  /\ [][(pc = "decide" /\ flagDecide) =>
          /\ \A i \in LoadIdx :
               (on'[i] # on[i] /\ cause' # "no margin") => LockLeft(i) = 0
          /\ on' = on =>
               \A i \in LoadIdx :
                 /\ ~(PnFilt <= 0 /\ solarMode'[i] /\ on[i] /\ LockLeft(i) = 0)
                 /\ ~(/\ ~on[i] /\ LockLeft(i) = 0 /\ powerW[i] < Margin
                      /\ (solarMode'[i] => powerW[i] < PnFilt))
       ]_vars

\* a rule that tests the lock counter changed a load whose counter was 1 when
\* the call was entered
C34_Witness ==
  /\ pc = "activate" /\ flagDecide /\ flagOneSec
  /\ fired.rule \in {2, 3, 4}
  /\ fired.entry = 1 /\ fired.lock = 0

(***************************************************************************)
(* The one-second detection across the wraparound of millis()              *)
(***************************************************************************)
\* C35: with millis() and lastTime taken modulo 2^32, a call of update() sets
\* the one-second flag exactly when at least 1000 ms have really elapsed since
\* the mark, also when millis() has wrapped past zero and the mark has not,
\* and when the mark wraps as 1000 is added to it
C35_WrapSafeSecond ==
  wrap.calls > 0 => (flagOneSec <=> wrap.real >= SECOND_MS)

\* millis() has wrapped past zero, the mark has not, and the call has found
\* the second elapsed
C35_Witness ==
  /\ wrap.calls > 0 /\ flagOneSec
  /\ wrap.now[1] = 0
  /\ wrap.mark[1] = HALF_WORD - 1

(***************************************************************************)
(* Start-up                                                                *)
(***************************************************************************)
\* no call of activate() has been made yet: the cause is the initial one (a
\* decision that changes a load changes it) and a flag set at registration
\* is still pending
BeforeFirstActivate ==
  nLoads > 0 /\ cause = "program start" /\ \E i \in LoadIdx : flag[i]

\* C36: a load is registered off, with lock counter zero and its
\* change-pending flag set; until the first call of activate() every load
\* stays so and no decide call changes a state; that first call drives "off"
\* to the digital output and to the transport of every registered load that
\* has one, and clears the flags
C36_StartupSync ==
  /\ [][(pc = "setup" /\ nLoads' = nLoads + 1) =>
          (flag'[nLoads] /\ ~on'[nLoads] /\ lockSec'[nLoads] = 0)]_vars
  /\ [](BeforeFirstActivate =>
          \A i \in LoadIdx : flag[i] /\ ~on[i] /\ lockSec[i] = 0)
  /\ [](pc = "activate" => (cause = "program start" => fired.rule = 0))
  /\ [][(pc = "decide" /\ BeforeFirstActivate) =>
          (on' = on /\ flag' = flag /\ cause' = cause)]_vars
  /\ [][(pc = "activate" /\ BeforeFirstActivate) =>
          \A i \in LoadIdx :
            /\ ~flag'[i]
            /\ gpioOut[i] # NO_PIN => ~pinOut'[gpioOut[i]]
            /\ radioModel[i] # "NO_RADIO" =>
                 \E k \in DOMAIN sendLog' :
                   /\ sendLog'[k].load = i
                   /\ sendLog'[k].channel = channel[i]
                   /\ ~sendLog'[k].setToOn
       ]_vars

\* the first call of activate() has been made, in an iteration without a
\* refresh pulse: three loads are registered, "off" has been sent for the two
\* that have a transport, and no flag is pending
C36_Witness ==
  /\ pc = "update" /\ nLoads = 3
  /\ cause = "program start" /\ ~flagOneSec /\ ~flagRefresh
  /\ Len(sendLog) = 2
  /\ \A k \in DOMAIN sendLog : ~sendLog[k].setToOn
  /\ \A i \in LoadIdx : ~flag[i] /\ ~on[i]
  /\ \A p \in OutPins : ~pinOut[p]

====
